---- MODULE Spec2Model ----
(***************************************************************************)
(* Account deduplication: the resolution pipeline of the two programs of   *)
(* the repository, "Account SFDC Clean.py" (program "clean") and the       *)
(* Streamlit app app.py (program "app").  Each run takes a table of        *)
(* account rows and annotates it with the columns Outcome, Proposed Parent *)
(* ID and Merge Target ID.                                                 *)
(*                                                                         *)
(* Strings are sequences of one-character strings, so that split('.'),     *)
(* endswith and difflib's SequenceMatcher are computed character by        *)
(* character.  The Account ID of a row is its position in the table (ids   *)
(* are unique); 0 stands for None in the two id columns.                   *)
(***************************************************************************)
EXTENDS Integers, Sequences, FiniteSets

VARIABLES
    program,      \* "clean" (Account SFDC Clean.py) or "app" (app.py)
    recs,         \* the input table: a sequence of rows, in input order
    pc,           \* the stage the run is at
    root,         \* column 'Domain Root' / 'Root Domain' (<<>> before it exists)
    suffix,       \* column 'Domain Suffix'
    outcome,      \* column 'Outcome'
    parentId,     \* column 'Proposed Parent ID' (0 = None)
    mergeTarget,  \* column 'Merge Target ID' (0 = None)
    pending,      \* the groups of the groupby the parent loop has not visited yet
    printed       \* the rule messages the clean program has printed: <<root, rule>>

vars == <<program, recs, pc, root, suffix, outcome, parentId, mergeTarget, pending, printed>>

-----------------------------------------------------------------------------
(* Values *)

\* The missing value (NaN / None) of a string column.  No string of the model
\* has the element "NaN".
NaN == <<"NaN">>

isna(x) == x = NaN

notna(x) == x # NaN

\* None in the id columns.
NoId == 0

RowIds == 1..Len(recs)

-----------------------------------------------------------------------------
(* str.split('.'), '.'.join, str.endswith *)

RECURSIVE SplitAcc(_, _, _)
SplitAcc(s, parts, cur) ==
    IF s = <<>> THEN Append(parts, cur)
    ELSE IF Head(s) = "."
         THEN SplitAcc(Tail(s), Append(parts, cur), <<>>)
         ELSE SplitAcc(Tail(s), parts, Append(cur, Head(s)))

\* domain.split('.')
Split(s) == SplitAcc(s, <<>>, <<>>)

RECURSIVE Join(_)
\* '.'.join(parts)
Join(parts) ==
    IF parts = <<>> THEN <<>>
    ELSE IF Len(parts) = 1 THEN parts[1]
    ELSE parts[1] \o <<".">> \o Join(Tail(parts))

\* s.endswith(t)
EndsWith(s, t) ==
    /\ Len(s) >= Len(t)
    /\ SubSeq(s, Len(s) - Len(t) + 1, Len(s)) = t

DotCom == <<".", "c", "o", "m">>

Com == <<"c", "o", "m">>

-----------------------------------------------------------------------------
(* The domain parsers *)

\* Account SFDC Clean.py: the root is the second-to-last label, the suffix the last.
CleanExtractRoot(domain) ==
    IF isna(domain) THEN NaN
    ELSE LET parts == Split(domain)
         IN  IF Len(parts) >= 2 THEN parts[Len(parts) - 1] ELSE NaN

CleanExtractSuffix(domain) ==
    IF isna(domain) THEN NaN
    ELSE LET parts == Split(domain)
         IN  IF Len(parts) >= 2 THEN parts[Len(parts)] ELSE NaN

\* app.py: the root is the first label, the suffix the remaining labels joined by '.'.
AppExtractRoot(domain) ==
    IF isna(domain) THEN NaN
    ELSE LET parts == Split(domain)
         IN  IF Len(parts) >= 2 THEN parts[1] ELSE NaN

AppExtractSuffix(domain) ==
    IF isna(domain) THEN NaN
    ELSE LET parts == Split(domain)
         IN  IF Len(parts) >= 2 THEN Join(Tail(parts)) ELSE NaN

RECURSIVE Remove(_, _)
Remove(s, chars) ==
    IF s = <<>> THEN <<>>
    ELSE IF Head(s) \in chars THEN Remove(Tail(s), chars)
         ELSE <<Head(s)>> \o Remove(Tail(s), chars)

\* re.sub(r'[-_]', '', domain) for a string, the value itself otherwise
clean_domain(domain) == IF isna(domain) THEN domain ELSE Remove(domain, {"-", "_"})

-----------------------------------------------------------------------------
(* difflib.SequenceMatcher(None, a, b).ratio(), with no junk (the strings  *)
(* are shorter than the 200 elements at which autojunk starts).            *)

RECURSIVE RunLen(_, _, _, _, _, _)
\* The length of the common run of a[i..ahi] and b[j..bhi] that starts at i, j.
RunLen(a, b, i, j, ahi, bhi) ==
    IF i <= ahi /\ j <= bhi /\ a[i] = b[j]
    THEN 1 + RunLen(a, b, i + 1, j + 1, ahi, bhi)
    ELSE 0

\* find_longest_match: the longest block a[i..i+k-1] = b[j..j+k-1] in the
\* ranges; of the longest, the one starting earliest in a, then earliest in b.
FindLongestMatch(a, b, alo, ahi, blo, bhi) ==
    LET cands == {<<i, j, RunLen(a, b, i, j, ahi, bhi)>> : i \in alo..ahi, j \in blo..bhi}
        hits  == {t \in cands : t[3] > 0}
    IN  IF hits = {} THEN <<alo, blo, 0>>
        ELSE CHOOSE t \in hits :
               \A u \in hits :
                  \/ t[3] > u[3]
                  \/ t[3] = u[3] /\ t[1] < u[1]
                  \/ t[3] = u[3] /\ t[1] = u[1] /\ t[2] <= u[2]

RECURSIVE MatchCount(_, _, _, _, _, _)
\* The total size of get_matching_blocks: the longest block, then the same
\* to its left and to its right.
MatchCount(a, b, alo, ahi, blo, bhi) ==
    IF alo > ahi \/ blo > bhi THEN 0
    ELSE LET m == FindLongestMatch(a, b, alo, ahi, blo, bhi)
         IN  IF m[3] = 0 THEN 0
             ELSE m[3]
                  + MatchCount(a, b, alo, m[1] - 1, blo, m[2] - 1)
                  + MatchCount(a, b, m[1] + m[3], ahi, m[2] + m[3], bhi)

\* ratio() as the fraction <<numerator, denominator>>: 2.0 * matches / length,
\* and 1.0 when both strings are empty.
Ratio(a, b) ==
    IF Len(a) + Len(b) = 0 THEN <<1, 1>>
    ELSE <<2 * MatchCount(a, b, 1, Len(a), 1, Len(b)), Len(a) + Len(b)>>

\* x > y on two such fractions (the quotients of these small integers are far
\* enough apart that the float comparison agrees)
Greater(x, y) == x[1] * y[2] > y[1] * x[2]

\* The merge threshold 0.8
Threshold == <<8, 10>>

fuzzy_name_match(name1, name2) == Ratio(name1, name2)

domain_similarity(domain1, domain2) == Ratio(domain1, domain2)

-----------------------------------------------------------------------------
(* Inputs *)

\* One row of the table.  Total Contacts and the opportunity counts are
\* numbers; Created Date is a value the sort compares (the programs sort the
\* column as it was read and never parse it), here a number.
Row(n, d, w, c, t, cd, co, oo) ==
    [name |-> n, domain |-> d, website |-> w, country |-> c,
     contacts |-> t, created |-> cd, closedOpps |-> co, openOpps |-> oo]

N_ab == <<"a", "b">>

N_abc == <<"a", "b", "c">>

N_abcd == <<"a", "b", "c", "d">>

W_site == <<"w">>

D_a_com == <<"a", ".", "c", "o", "m">>

D_a_de == <<"a", ".", "d", "e">>

D_a_xcom == <<"a", ".", "x", "c", "o", "m">>

D_m_a_com == <<"m", ".", "a", ".", "c", "o", "m">>

D_m_a_co_uk == <<"m", ".", "a", ".", "c", "o", ".", "u", "k">>

D_a == <<"a">>

D_b_de == <<"b", ".", "d", "e">>

D_b_fr == <<"b", ".", "f", "r">>

\* Billing country, total contacts, created date of the rows of the parent pools
Profiles ==
    { <<"United States", 0, 1>>, <<"United Kingdom", 0, 1>>, <<"Europe", 0, 2>>,
      <<"Germany", 0, 1>>, <<"Germany", 1, 1>>, <<"Germany", 1, 2>> }

\* Rows for the parent stage: domains that end in .com, in another suffix, in
\* a label that merely ends in "com", with three and four labels, without a
\* dot, and missing.
ParentPool ==
    { Row(N_ab, d, W_site, p[1], p[2], p[3], 0, 0) :
        d \in {D_a_com, D_a_de, D_a_xcom, D_m_a_com, D_m_a_co_uk}, p \in Profiles }
    \cup { Row(N_ab, d, W_site, "Germany", 0, 1, 0, 0) : d \in {D_a, NaN} }

\* Rows for the merge and deletion stages.  Without a domain: named or not,
\* with and without a website and opportunities.  With a domain: named or not.
MergePool ==
    { Row(n, NaN, NaN, "Germany", 0, 1, 0, 0) : n \in {N_ab, N_abc, N_abcd, NaN} }
    \cup { Row(N_abc, NaN, W_site, "Germany", 0, 1, 0, 0),
           Row(N_abc, NaN, NaN, "Germany", 0, 1, 1, 0),
           Row(N_abc, NaN, NaN, "Germany", 0, 1, 0, 1) }
    \cup { Row(n, d, NaN, "Germany", 0, 1, 0, 0) :
             n \in {N_ab, N_abc, N_abcd, NaN}, d \in {D_a_com, D_a_de} }

\* Rows for several groups at once
GroupPool ==
    { Row(N_ab, d, W_site, "Germany", t, 1, 0, 0) :
        d \in {D_a_de, D_b_de, D_b_fr}, t \in {0, 1} }
    \cup { Row(N_ab, d, W_site, "Germany", 0, 1, 0, 0) : d \in {D_a_com, NaN} }

\* The number of rows of the table, per specification
NumMergeRows == 3

NumParentRows == 3

NumGroupRows == 4

Programs == {"clean", "app"}

InitWith(pool, n) ==
    /\ program \in Programs
    /\ recs \in [1..n -> pool]
    /\ pc = "start"
    /\ root = <<>>
    /\ suffix = <<>>
    /\ outcome = <<>>
    /\ parentId = <<>>
    /\ mergeTarget = <<>>
    /\ pending = {}
    /\ printed = {}

Init == InitWith(MergePool, NumMergeRows)

InitParent == InitWith(ParentPool, NumParentRows)

InitGroups == InitWith(GroupPool, NumGroupRows)

-----------------------------------------------------------------------------
(* The columns the run adds first *)

\* The keys of df.groupby(root column): the non-missing roots
GroupKeys(rootCol) == {rootCol[i] : i \in DOMAIN rootCol} \ {NaN}

InitColumns ==
    /\ outcome' = [i \in RowIds |-> "No Action"]
    /\ parentId' = [i \in RowIds |-> NoId]
    /\ mergeTarget' = [i \in RowIds |-> NoId]

CleanExtract ==
    /\ program = "clean"
    /\ pc = "start"
    /\ root' = [i \in RowIds |-> CleanExtractRoot(recs[i].domain)]
    /\ suffix' = [i \in RowIds |-> CleanExtractSuffix(recs[i].domain)]
    /\ InitColumns
    /\ pending' = GroupKeys(root')
    /\ pc' = "parent"
    /\ UNCHANGED <<program, recs, printed>>

AppExtract ==
    /\ program = "app"
    /\ pc = "start"
    /\ root' = [i \in RowIds |-> AppExtractRoot(recs[i].domain)]
    /\ suffix' = [i \in RowIds |-> AppExtractSuffix(recs[i].domain)]
    /\ InitColumns
    /\ pending' = GroupKeys(root')
    /\ pc' = "parent"
    /\ UNCHANGED <<program, recs, printed>>

-----------------------------------------------------------------------------
(* The parent stage: one step per group of the groupby *)

\* The rows of the table in input order
AllRows == [i \in RowIds |-> i]

\* One group of the groupby: the rows with this root, in input order
Group(r) == SelectSeq(AllRows, LAMBDA i : root[i] = r)

\* group.index, parent_row.index
Index(rows) == {rows[k] : k \in DOMAIN rows}

\* rows.iloc[:1]
Iloc1(rows) == IF rows = <<>> THEN <<>> ELSE <<rows[1]>>

WithoutAt(rows, p) == SubSeq(rows, 1, p - 1) \o SubSeq(rows, p + 1, Len(rows))

\* Row i sorts strictly before row j by Total Contacts descending, then
\* Created Date ascending
BeforeContactsCreated(i, j) ==
    \/ recs[i].contacts > recs[j].contacts
    \/ recs[i].contacts = recs[j].contacts /\ recs[i].created < recs[j].created

RECURSIVE SortContactsCreated(_)
\* group.sort_values(by=[contacts, created], ascending=[False, True]); the
\* sort on several keys is stable, so equal rows keep their input order
SortContactsCreated(rows) ==
    IF rows = <<>> THEN <<>>
    ELSE LET p == CHOOSE p \in DOMAIN rows :
                    /\ \A q \in DOMAIN rows : ~BeforeContactsCreated(rows[q], rows[p])
                    /\ \A q \in 1..(p - 1) : BeforeContactsCreated(rows[p], rows[q])
                                             \/ BeforeContactsCreated(rows[q], rows[p])
         IN  <<rows[p]>> \o SortContactsCreated(WithoutAt(rows, p))

RECURSIVE SortCreated(_)
\* group.sort_values(by=['Created Date'])
SortCreated(rows) ==
    IF rows = <<>> THEN <<>>
    ELSE LET p == CHOOSE p \in DOMAIN rows :
                    /\ \A q \in DOMAIN rows : recs[rows[q]].created >= recs[rows[p]].created
                    /\ \A q \in 1..(p - 1) : recs[rows[q]].created # recs[rows[p]].created
         IN  <<rows[p]>> \o SortCreated(WithoutAt(rows, p))

\* similarity_scores.idxmax(): the first row of the group whose cleaned domain
\* is most similar to the cleaned domain of the group's first row
MostSimilar(group) ==
    LET score(i) == domain_similarity(clean_domain(recs[group[1]].domain),
                                      clean_domain(recs[i].domain))
        p == CHOOSE p \in DOMAIN group :
                /\ \A q \in DOMAIN group : ~Greater(score(group[q]), score(group[p]))
                /\ \A q \in 1..(p - 1) : Greater(score(group[p]), score(group[q]))
    IN  <<group[p]>>

\* The cascade of Account SFDC Clean.py: the rows of parent_row and the rule
\* whose message is printed
CleanParentRow(group) ==
    LET com    == SelectSeq(group, LAMBDA i : EndsWith(recs[i].domain, DotCom))
        usa    == SelectSeq(group, LAMBDA i : recs[i].country = "United States")
        europe == SelectSeq(group, LAMBDA i : recs[i].country \in {"United Kingdom", "Europe"})
        tie    == Iloc1(SortContactsCreated(group))
    IN  IF com # <<>> THEN [rows |-> com, rule |-> 1]
        ELSE IF usa # <<>> THEN [rows |-> usa, rule |-> 2]
        ELSE IF europe # <<>> THEN [rows |-> europe, rule |-> 3]
        ELSE IF tie # <<>> THEN [rows |-> tie, rule |-> 4]
        ELSE IF MostSimilar(group) # <<>> THEN [rows |-> MostSimilar(group), rule |-> 5]
        ELSE [rows |-> Iloc1(SortCreated(group)), rule |-> 6]

\* The cascade of app.py: a suffix that ends with 'com', else the sort
AppParentRow(group) ==
    LET com == SelectSeq(group, LAMBDA i : EndsWith(suffix[i], Com))
    IN  IF com # <<>> THEN com ELSE Iloc1(SortContactsCreated(group))

\* The writes with 'Child' assigned to the whole Outcome column instead of
\* the rows of the group
AssignParentAllRows(group, parent_row) ==
    IF parent_row # <<>>
    THEN /\ outcome' = [i \in RowIds |->
                          IF i \in Index(parent_row) THEN "Parent" ELSE "Child"]
         /\ parentId' = [i \in RowIds |->
                          IF i \in Index(group) \ Index(parent_row)
                          THEN parent_row[1]
                          ELSE parentId[i]]
    ELSE UNCHANGED <<outcome, parentId>>

\* The three writes that end the loop body: 'Child' for group.index, 'Parent'
\* for parent_row.index, and the first parent row's id as Proposed Parent ID
\* for group.index.difference(parent_row.index)
AssignParent(group, parent_row) ==
    IF parent_row # <<>>
    THEN /\ outcome' = [i \in RowIds |->
                          IF i \in Index(parent_row) THEN "Parent"
                          ELSE IF i \in Index(group) THEN "Child"
                          ELSE outcome[i]]
         /\ parentId' = [i \in RowIds |->
                          IF i \in Index(group) \ Index(parent_row)
                          THEN parent_row[1]
                          ELSE parentId[i]]
    ELSE UNCHANGED <<outcome, parentId>>

\* One iteration of "for _, group in grouped".  The groupby yields its groups
\* in key order; the model lets them come in any order.
CleanParentGroup(r) ==
    /\ program = "clean"
    /\ pc = "parent"
    /\ r \in pending
    /\ pending' = pending \ {r}
    /\ IF Len(Group(r)) > 1
       THEN /\ AssignParent(Group(r), CleanParentRow(Group(r)).rows)
            /\ printed' = printed \cup {<<r, CleanParentRow(Group(r)).rule>>}
       ELSE UNCHANGED <<outcome, parentId, printed>>
    /\ UNCHANGED <<program, recs, pc, root, suffix, mergeTarget>>

AppParentGroup(r) ==
    /\ program = "app"
    /\ pc = "parent"
    /\ r \in pending
    /\ pending' = pending \ {r}
    /\ IF Len(Group(r)) > 1
       THEN AssignParent(Group(r), AppParentRow(Group(r)))
       ELSE UNCHANGED <<outcome, parentId>>
    /\ UNCHANGED <<program, recs, pc, root, suffix, mergeTarget, printed>>

-----------------------------------------------------------------------------
(* The merge stage *)

\* A merge condition that forgets the test for a missing domain
CleanMergeConditionAnyDomain(i) == notna(recs[i].name)

\* merge_condition: no domain, and a name
CleanMergeCondition(i) == isna(recs[i].domain) /\ notna(recs[i].name)

\* df[df['Domain'].notna()]: the rows the clean program scans for a target
CleanDomainRows == SelectSeq(AllRows, LAMBDA i : notna(recs[i].domain))

RECURSIVE CleanScan(_, _)
\* The inner loop for one candidate name: the first scanned row whose name is
\* more than 0.8 similar.  SequenceMatcher raises TypeError on a missing name.
CleanScan(name, rows) ==
    IF rows = <<>> THEN [target |-> NoId, raised |-> FALSE]
    ELSE IF isna(recs[Head(rows)].name) THEN [target |-> NoId, raised |-> TRUE]
    ELSE IF Greater(fuzzy_name_match(name, recs[Head(rows)].name), Threshold)
         THEN [target |-> Head(rows), raised |-> FALSE]
         ELSE CleanScan(name, Tail(rows))

\* merge_target_dict, which is keyed by the candidate's name
CleanMergeTarget(i) == CleanScan(recs[i].name, CleanDomainRows).target

CleanMerge ==
    /\ program = "clean"
    /\ pc = "parent"
    /\ pending = {}
    /\ IF \E i \in RowIds : CleanMergeCondition(i)
                            /\ CleanScan(recs[i].name, CleanDomainRows).raised
       THEN /\ pc' = "raised"
            /\ UNCHANGED <<outcome, mergeTarget>>
       ELSE /\ mergeTarget' = [i \in RowIds |->
                                 IF CleanMergeCondition(i) THEN CleanMergeTarget(i)
                                 ELSE mergeTarget[i]]
            /\ outcome' = [i \in RowIds |->
                             IF CleanMergeCondition(i) /\ mergeTarget'[i] # NoId
                             THEN "Merge" ELSE outcome[i]]
            /\ pc' = "deletion"
    /\ UNCHANGED <<program, recs, root, suffix, parentId, pending, printed>>

AppMergeCondition(i) == isna(recs[i].domain) /\ notna(recs[i].name)

\* Domain accounts that forget the test for a present domain
DomainAccountsAnyRow == SelectSeq(AllRows, LAMBDA i : notna(recs[i].name))

\* domain_accounts: the rows with a domain and a name
DomainAccounts == SelectSeq(AllRows, LAMBDA i : notna(recs[i].domain) /\ notna(recs[i].name))

\* match: the domain accounts with exactly the candidate's name
ExactMatch(i) == SelectSeq(DomainAccounts, LAMBDA j : recs[j].name = recs[i].name)

AppMerge ==
    /\ program = "app"
    /\ pc = "parent"
    /\ pending = {}
    /\ mergeTarget' = [i \in RowIds |->
                         IF AppMergeCondition(i) /\ ExactMatch(i) # <<>>
                         THEN ExactMatch(i)[1] ELSE NoId]
    /\ outcome' = [i \in RowIds |->
                     IF AppMergeCondition(i) /\ ExactMatch(i) # <<>>
                     THEN "Merge" ELSE outcome[i]]
    /\ pc' = "deletion"
    /\ UNCHANGED <<program, recs, root, suffix, parentId, pending, printed>>

-----------------------------------------------------------------------------
(* The deletion stage *)

\* deletion_condition: no domain, no website, no opportunities
DeletionCondition(i) ==
    /\ isna(recs[i].domain)
    /\ isna(recs[i].website)
    /\ recs[i].closedOpps = 0
    /\ recs[i].openOpps = 0

\* matching_accounts: the names of the rows with a domain (isin matches a
\* missing name with a missing name)
MatchingAccounts == {recs[j].name : j \in {k \in RowIds : notna(recs[k].domain)}}

CleanDelete ==
    /\ program = "clean"
    /\ pc = "deletion"
    /\ outcome' = [i \in RowIds |->
                     IF DeletionCondition(i) /\ recs[i].name \notin MatchingAccounts
                     THEN "Delete" ELSE outcome[i]]
    /\ pc' = "done"
    /\ UNCHANGED <<program, recs, root, suffix, parentId, mergeTarget, pending, printed>>

AppDelete ==
    /\ program = "app"
    /\ pc = "deletion"
    /\ outcome' = [i \in RowIds |-> IF DeletionCondition(i) THEN "Delete" ELSE outcome[i]]
    /\ pc' = "done"
    /\ UNCHANGED <<program, recs, root, suffix, parentId, mergeTarget, pending, printed>>

-----------------------------------------------------------------------------
(* The fuzzy matching step of app.py.  The step is nested in the block of   *)
(* the first pass and works on its potential_merge and domain_accounts;    *)
(* the model lets it run once the first pass is done.                      *)

RECURSIVE FuzzyScan(_, _, _, _)
\* The inner loop for one candidate: best_match and best_ratio over the
\* domain accounts, a later row winning only with a strictly greater ratio
FuzzyScan(name, rows, best_match, best_ratio) ==
    IF rows = <<>> THEN best_match
    ELSE LET ratio == Ratio(name, recs[Head(rows)].name)
         IN  IF Greater(ratio, best_ratio)
             THEN FuzzyScan(name, Tail(rows), Head(rows), ratio)
             ELSE FuzzyScan(name, Tail(rows), best_match, best_ratio)

\* fuzzy_merge_target_dict, keyed by Account ID; NoId when the id has no entry
FuzzyMergeTarget(i) ==
    IF AppMergeCondition(i) THEN FuzzyScan(recs[i].name, DomainAccounts, NoId, Threshold)
    ELSE NoId

AppFuzzy ==
    /\ program = "app"
    /\ pc = "done"
    /\ mergeTarget' = [i \in RowIds |->
                         IF FuzzyMergeTarget(i) # NoId THEN FuzzyMergeTarget(i)
                         ELSE mergeTarget[i]]
    /\ outcome' = [i \in RowIds |->
                     IF FuzzyMergeTarget(i) # NoId THEN "Merge" ELSE outcome[i]]
    /\ pc' = "fuzzy_done"
    /\ UNCHANGED <<program, recs, root, suffix, parentId, pending, printed>>

-----------------------------------------------------------------------------

Next ==
    \/ CleanExtract
    \/ AppExtract
    \/ \E r \in pending : CleanParentGroup(r)
    \/ \E r \in pending : AppParentGroup(r)
    \/ CleanMerge
    \/ AppMerge
    \/ CleanDelete
    \/ AppDelete
    \/ AppFuzzy

Spec == Init /\ [][Next]_vars

SpecParent == InitParent /\ [][Next]_vars

SpecGroups == InitGroups /\ [][Next]_vars

-----------------------------------------------------------------------------
(* The claims *)

\* The run has produced its result table
Finished == pc \in {"done", "fuzzy_done"}

\* The rows whose root column holds r
Members(r) == {i \in DOMAIN root : root[i] = r}

\* The groups of at least two rows that the parent loop has visited
VisitedGroups ==
    {r \in GroupKeys(root) : r \notin pending /\ Cardinality(Members(r)) >= 2}

\* C1: after a run, every group of at least two rows that share a root has
\* exactly one row with outcome Parent, and every other row of the group is a
\* Child whose Proposed Parent ID is that parent's id.
ClaimC1 ==
    Finished =>
      \A r \in GroupKeys(root) :
         Cardinality(Members(r)) >= 2 =>
           \E p \in Members(r) :
              /\ outcome[p] = "Parent"
              /\ \A i \in Members(r) \ {p} : outcome[i] = "Child" /\ parentId[i] = p

\* C2: the deletion stage never overrides a Merge outcome: in the final
\* result a row with a Merge Target ID has outcome Merge.
ClaimC2 ==
    Finished => \A i \in RowIds : mergeTarget[i] # NoId => outcome[i] = "Merge"

\* C3: a row is marked Delete only if it has no domain, no website, no closed
\* and no open opportunities, and no other row of the same name has a domain.
ClaimC3 ==
    \A i \in DOMAIN outcome :
       outcome[i] = "Delete" =>
         /\ isna(recs[i].domain)
         /\ isna(recs[i].website)
         /\ recs[i].closedOpps = 0
         /\ recs[i].openOpps = 0
         /\ ~\E j \in RowIds \ {i} :
               /\ notna(recs[j].name)
               /\ recs[j].name = recs[i].name
               /\ notna(recs[j].domain)

\* The first row of a sequence of rows, as a set (empty for no row)
FirstOf(rows) == IF rows = <<>> THEN {} ELSE {rows[1]}

\* The parent the four documented rules name for a group: the first row whose
\* domain ends with ".com", else the first with billing country United
\* States, else the first with United Kingdom or Europe, else the first row
\* by contacts descending and created date ascending.
DocumentedParent(r) ==
    LET com    == SelectSeq(Group(r), LAMBDA i : EndsWith(recs[i].domain, DotCom))
        usa    == SelectSeq(Group(r), LAMBDA i : recs[i].country = "United States")
        europe == SelectSeq(Group(r), LAMBDA i : recs[i].country \in {"United Kingdom", "Europe"})
    IN  IF com # <<>> THEN FirstOf(com)
        ELSE IF usa # <<>> THEN FirstOf(usa)
        ELSE IF europe # <<>> THEN FirstOf(europe)
        ELSE FirstOf(SortContactsCreated(Group(r)))

\* C4: in every visited group of at least two rows the parent is the first
\* candidate, in input order, of the first of the four rules that has one.
ClaimC4 ==
    \A r \in VisitedGroups :
       {i \in Members(r) : outcome[i] = "Parent"} = DocumentedParent(r)

\* C5: the parser gives no root and no suffix to a missing domain and to one
\* with fewer than two labels, and otherwise the first label as root and the
\* remaining labels joined by "." as suffix; the groups are formed on this root.
ClaimC5 ==
    pc # "start" =>
      \A i \in RowIds :
         LET parts == Split(recs[i].domain)
         IN  IF isna(recs[i].domain) \/ Len(parts) < 2
             THEN root[i] = NaN /\ suffix[i] = NaN
             ELSE root[i] = parts[1] /\ suffix[i] = Join(Tail(parts))

\* The fuzzy merge has run: the merge stage of the clean program, the fuzzy
\* matching step of the app
FuzzyDone ==
    \/ program = "clean" /\ pc \in {"deletion", "done"}
    \/ program = "app" /\ pc = "fuzzy_done"

\* The named rows with a domain whose name is more than 0.8 similar to row
\* i's name, and no less similar than any other such row
BestTargets(i) ==
    LET pool == {j \in RowIds : /\ notna(recs[j].domain)
                                /\ notna(recs[j].name)
                                /\ Greater(Ratio(recs[i].name, recs[j].name), Threshold)}
    IN  {j \in pool : \A k \in pool : ~Greater(Ratio(recs[i].name, recs[k].name),
                                               Ratio(recs[i].name, recs[j].name))}

\* C6: in fuzzy mode the merge target of a named row without a domain is the
\* row with a domain whose name is most similar to its name among those of
\* similarity above 0.8, the earliest of them in input order; with no such
\* row it has no merge target and is not marked Merge.
ClaimC6 ==
    FuzzyDone =>
      \A i \in RowIds :
         isna(recs[i].domain) /\ notna(recs[i].name) =>
           IF BestTargets(i) = {}
           THEN mergeTarget[i] = NoId /\ outcome[i] # "Merge"
           ELSE /\ mergeTarget[i] \in BestTargets(i)
                /\ \A j \in BestTargets(i) : mergeTarget[i] <= j

\* C7: no row ever has both a Merge Target ID and a Proposed Parent ID, and
\* no step gives a merge target to a row whose outcome is Parent or Child.
ClaimC7 ==
    /\ [](\A i \in DOMAIN mergeTarget : ~(mergeTarget[i] # NoId /\ parentId[i] # NoId))
    /\ [][\A i \in DOMAIN outcome :
            outcome[i] \in {"Parent", "Child"} =>
              mergeTarget'[i] = NoId /\ outcome'[i] = outcome[i]]_vars

\* A row has a merge target next to a row that has a proposed parent
WitnessC7 ==
    /\ Finished
    /\ \E i \in RowIds : mergeTarget[i] # NoId
    /\ \E j \in RowIds : parentId[j] # NoId

\* C8: a Merge Target ID is the id of a row of the table that has a domain,
\* and never the id of the row itself.
ClaimC8 ==
    \A i \in DOMAIN mergeTarget :
       mergeTarget[i] # NoId =>
         /\ mergeTarget[i] \in RowIds
         /\ notna(recs[mergeTarget[i]].domain)
         /\ mergeTarget[i] # i

\* A finished run in which a row has a merge target of another name (a
\* fuzzy match)
WitnessC8 ==
    /\ Finished
    /\ \E i \in RowIds :
          /\ mergeTarget[i] # NoId
          /\ recs[mergeTarget[i]].name # recs[i].name

\* The parent rows the program's cascade gives for the group of root r
ProgramParentRow(r) ==
    IF program = "clean" THEN CleanParentRow(Group(r)).rows ELSE AppParentRow(Group(r))

\* C9: in a visited group of at least two rows, none with a ".com" domain or
\* a United States, United Kingdom or Europe billing country, the parent is
\* the first row by contacts descending and created date ascending, and the
\* domain-similarity rule 5 and the oldest-record rule 6 never decide.
ClaimC9 ==
    \A r \in VisitedGroups :
       /\ (\A i \in Members(r) :
              /\ ~EndsWith(recs[i].domain, DotCom)
              /\ recs[i].country \notin {"United States", "United Kingdom", "Europe"})
          => {i \in Members(r) : outcome[i] = "Parent"}
               = FirstOf(SortContactsCreated(Group(r)))
       /\ <<r, 5>> \notin printed
       /\ <<r, 6>> \notin printed

\* C10: during the parent stage, in whatever order the groups are visited,
\* a row of a visited group of at least two rows holds the result of its own
\* group, and every other row (of a group not yet visited, of a group of one,
\* or without a root) is No Action with no Proposed Parent ID.
ClaimC10 ==
    pc = "parent" =>
      \A i \in RowIds :
         IF root[i] \in VisitedGroups
         THEN LET parent_row == ProgramParentRow(root[i])
              IN  IF i \in Index(parent_row)
                  THEN outcome[i] = "Parent" /\ parentId[i] = NoId
                  ELSE outcome[i] = "Child" /\ parentId[i] = parent_row[1]
         ELSE outcome[i] = "No Action" /\ parentId[i] = NoId

\* One group of two rows is visited while another is still to come
WitnessC10 ==
    /\ pc = "parent"
    /\ VisitedGroups # {}
    /\ \E r \in pending : Cardinality(Members(r)) >= 2

-----------------------------------------------------------------------------
(* Claims that one of the two programs breaks, on the program that meets   *)
(* them                                                                    *)

\* C3 on the clean program, whose deletion stage tests the names of the rows
\* with a domain
ClaimC3OnClean == program = "clean" => ClaimC3

\* C5 on the app, whose parser takes the first label as root
ClaimC5OnApp == program = "app" => ClaimC5

\* C6 on the app, whose fuzzy step keeps the most similar row
ClaimC6OnApp == program = "app" => ClaimC6

\* C9 on the clean program, whose first rule tests for the suffix ".com"
ClaimC9OnClean == program = "clean" => ClaimC9

====
